---- MODULE Spec2Model ----
(***************************************************************************)
(* Notes4Me: the recording / transcription / summarisation pipeline and    *)
(* the lifecycle of the files it produces.                                  *)
(*                                                                         *)
(* The model follows src/services/recorder.js (Recorder, one sox capture   *)
(* subprocess), src/services/transcriber.js (transcribe, one whisper       *)
(* subprocess), the summariser and file manager in                         *)
(* src/services/fileManager.js and the coordinator src/main.js (tray and   *)
(* IPC handlers, settings store).                                          *)
(*                                                                         *)
(* Time is counted in seconds, the resolution of the recording file name.  *)
(* A file is identified by <<output directory, stem>>, the stem being the  *)
(* timestamp token of the recording's name; the transcript and the notes   *)
(* of a recording carry the same stem in <dir>/processed.                  *)
(***************************************************************************)
EXTENDS Integers, Sequences, FiniteSets, TLC

\* ---------------------------------------------------------------- bounds
MaxProcs == 2       \* sox subprocesses spawned in one run
MaxRecs == 2        \* Recorder objects constructed in one run
MaxJobs == 2        \* transcription/summarisation jobs in flight at once
MaxSeconds == 1     \* seconds the clock advances one by one
MaxStops == 2       \* stop() calls pending on one subprocess
MaxStderr == 6      \* characters of whisper diagnostics in one job
MaxLines == 2       \* lines in the body of one generation response
MaxFiles == 2       \* recording files in a directory that is listed
MaxDevices == 3     \* devices in one enumeration

\* ------------------------------------------------------ program constants
MS_PER_DAY == 24 * 60 * 60          \* one day, in the model's time unit
RETENTION_DAYS == 7                 \* store default retentionDays
maxRecordingSize == 1024 * 1024 * 1024

Dirs == {"A", "B"}                  \* values of the outputDirectory setting
DefaultDir == "A"
RetentionInputs == {1, 7}           \* retentionDays values a settings:update carries
OldStem == 0 - 2 * MS_PER_DAY       \* a recording left by an earlier run
MaxNow == MS_PER_DAY + MaxSeconds

NoFile == <<>>
NoProc == 0
NoTimer == 0

VARIABLES
  now,          \* Date.now(), in seconds
  store,        \* electron-store: outputDirectory, retentionDays, autoProcess
  recs,         \* every Recorder constructed; the coordinator's `recorder` is the last
  procs,        \* every sox subprocess spawned, by pid
  timers,       \* live size-check intervals, named by the pid of their session
  recordings,   \* <dir>/recordings/*.wav : key -> [size, mtime, birthtime]
  transcripts,  \* <dir>/processed/*_transcript.txt : key -> content class
  notes,        \* <dir>/processed/*_notes.md : key -> content class
  jobs,         \* transcribe()/generateNotes() calls in flight
  transcribed,  \* history: transcript paths a transcribe() call resolved with
  lastOp        \* the handler or event that ran last, with what it returned

vars == <<now, store, recs, procs, timers, recordings, transcripts, notes,
          jobs, transcribed, lastOp>>

\* ------------------------------------------------------------- helpers
Key(dir, stem) == <<dir, stem>>

Exists(files, k) == k \in DOMAIN files

\* what a read of file k finds
Content(files, k) == IF Exists(files, k) THEN files[k] ELSE "missing"

\* fs.writeFileSync / a subprocess writing file k
Put(files, k, v) == [x \in DOMAIN files \cup {k} |-> IF x = k THEN v ELSE files[x]]

\* fs.unlinkSync of every file in ks
Unlink(files, ks) == [x \in DOMAIN files \ ks |-> files[x]]

\* the coordinator's current Recorder (main.js `recorder`)
recorder == Len(recs)

Running(p) == procs[p].state = "running"

\* a capture session is active from its successful start() until its stop()
\* settles, cleanup() is called on it or its subprocess ends by itself
SessionActive(p) == Running(p) /\ ~procs[p].cleaned

ActiveSessions(r) == {p \in 1..Len(procs) : procs[p].owner = r /\ SessionActive(p)}

Quiet == [op |-> "none"]

\* --------------------------------------------------------- Recorder class
\* a subprocess of recorder r that has ended: it exited, or never ran
Ended(r, state) ==
  [owner |-> r, file |-> NoFile, state |-> state, signal |-> "none",
   stops |-> 0, opened |-> FALSE, cleaned |-> FALSE]

NewRecorder(outputDir) ==
  [outputDir |-> outputDir, soxProcess |-> NoProc, currentFile |-> NoFile,
   isRecording |-> FALSE, startTime |-> -1, sizeInterval |-> NoTimer]

\* recorder.js:36 the AlreadyActive guard of start()
StartRejects(r) == recs[r].isRecording

\* a stop() guard that looks at the subprocess handle alone
StopRejectsByHandle(r) == recs[r].soxProcess = NoProc

\* recorder.js:112 the NotRecording guard of stop()
StopRejects(r) == ~recs[r].isRecording \/ recs[r].soxProcess = NoProc

\* recorder.js:46-48 the file a session started now writes
NewFilePath(r) == Key(recs[r].outputDir, now)

\* Recorder.start(warningCallback) on recorder r.  deviceFound: whether
\* findBlackHoleDevice() succeeds; spawnOk: FALSE when sox cannot be spawned,
\* the 'error' event (recorder.js:71-75) then runs before any other handler.
RecorderStart(r, deviceFound, spawnOk) ==
  IF StartRejects(r)
  THEN /\ lastOp' = [op |-> "start", result |-> "AlreadyActive"]
       /\ UNCHANGED <<recs, procs, timers>>
  ELSE IF ~deviceFound
  THEN /\ recs' = [recs EXCEPT ![r].currentFile = NewFilePath(r)]
       /\ lastOp' = [op |-> "start", result |-> "DeviceNotFound"]
       /\ UNCHANGED <<procs, timers>>
  ELSE LET p == Len(procs) + 1 IN
       /\ Len(procs) < MaxProcs
       /\ procs' = Append(procs,
            IF spawnOk
            THEN [owner |-> r, file |-> NewFilePath(r), state |-> "running",
                  signal |-> "none", stops |-> 0, opened |-> FALSE,
                  cleaned |-> FALSE]
            ELSE Ended(r, "failed"))
       /\ recs' = [recs EXCEPT ![r] =
            [@ EXCEPT !.currentFile = NewFilePath(r), !.soxProcess = p,
                      !.isRecording = spawnOk, !.startTime = now,
                      !.sizeInterval = p]]
       /\ timers' = timers \cup {p}
       /\ lastOp' = [op |-> "start", result |-> "started"]

\* ChildProcess.kill(sig): a signal reaches only a live subprocess
Kill(ps, p, sig) ==
  IF ps[p].state = "running" /\ ps[p].signal # "KILL"
  THEN [ps EXCEPT ![p].signal = sig] ELSE ps

\* Recorder.stop() up to the point where its promise waits for 'exit'
RecorderStop(r) ==
  IF StopRejects(r)
  THEN /\ lastOp' = [op |-> "stop", result |-> "NotRecording"]
       /\ UNCHANGED <<recs, procs, timers>>
  ELSE LET p == recs[r].soxProcess IN
       /\ procs[p].stops < MaxStops
       /\ timers' = timers \ {recs[r].sizeInterval}
       /\ recs' = [recs EXCEPT ![r].sizeInterval = NoTimer]
       /\ procs' = [Kill(procs, p, "TERM") EXCEPT ![p].stops = @ + 1]
       /\ lastOp' = [op |-> "stop", result |-> "pending"]

\* Recorder.cleanup(), the emergency path
RecorderCleanup(r) ==
  LET p == recs[r].soxProcess
      kills == p # NoProc /\ recs[r].isRecording
  IN /\ timers' = timers \ {recs[r].sizeInterval}
     /\ recs' = [recs EXCEPT ![r].sizeInterval = NoTimer, ![r].isRecording = FALSE]
     /\ procs' = IF kills
                 THEN [Kill(procs, p, "KILL") EXCEPT ![p].cleaned = TRUE]
                 ELSE procs
     /\ lastOp' = [op |-> "cleanup"]

\* recorder.js:163-173 getStatus(): {} is null
getStatus(r) ==
  IF ~recs[r].isRecording THEN {}
  ELSE {[isRecording |-> TRUE, duration |-> now - recs[r].startTime,
         filepath |-> recs[r].currentFile]}

\* ------------------------------------------------------- audio devices
\* The output of `system_profiler SPAudioDataType` as tokens: a line per
\* device, each line the pieces of a device name, lines joined by "\n".
\* "BlackHole" and "blackhole" are the same word in two spellings.
ToLowerCase(s) ==
  [i \in DOMAIN s |-> IF s[i] = "BlackHole" THEN "blackhole"
                      ELSE IF s[i] = "Speakers" THEN "speakers" ELSE s[i]]

\* String.prototype.includes
Includes(s, pat) ==
  \E i \in 1..(Len(s) - Len(pat) + 1) : SubSeq(s, i, i + Len(pat) - 1) = pat

\* audioDevices.js:33-38 the known device names, most preferred first
possibleNames ==
  << <<"BlackHole", " ", "2ch">>, <<"BlackHole", "2ch">>,
     <<"BlackHole", " ", "16ch">>, <<"BlackHole">> >>

\* audioDevices.js:16-66 findBlackHoleDevice(): execOk is whether execSync
\* returned; the loop over possibleNames returns in its first iteration
findBlackHoleDevice(execOk, audioDevices) ==
  IF ~execOk THEN [error |-> "DetectionFailed", name |-> <<>>]
  ELSE IF ~Includes(ToLowerCase(audioDevices), <<"blackhole">>)
  THEN [error |-> "DeviceNotFound", name |-> <<>>]
  ELSE [error |-> "none", name |-> possibleNames[1]]

\* recorder.js:50-57 the device lookup of start()
DetectDevice(execOk, audioDevices) ==
  /\ lastOp' = [op |-> "findDevice", execOk |-> execOk, audioDevices |-> audioDevices,
                result |-> findBlackHoleDevice(execOk, audioDevices)]
  /\ UNCHANGED <<now, store, recs, procs, timers, recordings, transcripts, notes,
                 jobs, transcribed>>

\* ------------------------------------------------------- file manager
\* an age test that also takes the files exactly retentionDays old
ExpiredInclusive(mtime, retentionDays) == now - mtime >= retentionDays * MS_PER_DAY

\* fileManager.js:65 the age test of the retention sweep
Expired(mtime, retentionDays) == now - mtime > retentionDays * MS_PER_DAY

\* cleanupOldRecordings(baseDir, retentionDays): the recordings it deletes.
\* Only <baseDir>/recordings is read; every file there is a .wav recording.
cleanupOldRecordings(baseDir, retentionDays) ==
  {k \in DOMAIN recordings :
     k[1] = baseDir /\ Expired(recordings[k].mtime, retentionDays)}

\* a sweep that also removes what was derived from the recordings it deletes
SweepWithDerived(op) ==
  LET deleted == cleanupOldRecordings(store.outputDirectory, store.retentionDays)
  IN /\ recordings' = Unlink(recordings, deleted)
     /\ transcripts' = Unlink(transcripts, deleted)
     /\ notes' = Unlink(notes, deleted)
     /\ lastOp' = [op |-> op, deleted |-> deleted]

\* main.js:493-506 runCleanup, main.js:754-775 files:cleanup
Sweep(op) ==
  LET deleted == cleanupOldRecordings(store.outputDirectory, store.retentionDays)
  IN /\ recordings' = Unlink(recordings, deleted)
     /\ lastOp' = [op |-> op, deleted |-> deleted]
     /\ UNCHANGED <<transcripts, notes>>

\* main.js:657-694 files:list, the entries it returns (unordered)
FilesList ==
  {[key |-> k, transcribed |-> Exists(transcripts, k), summarized |-> Exists(notes, k)] :
     k \in {x \in DOMAIN recordings : x[1] = store.outputDirectory}}

\* ------------------------------------------------------- transcriber
\* whisper's stderr as characters: "P" stands for the text `progress = `;
\* a digit or a "%" outside a marker is text the pattern does not match
Digits == {"1", "2"}
Alphabet == {"P", "%"} \cup Digits

DigitValue(d) == IF d = "1" THEN 1 ELSE 2

RECURSIVE DigitRun(_, _)
\* the first position after the run of digits that starts at i
DigitRun(s, i) == IF i <= Len(s) /\ s[i] \in Digits THEN DigitRun(s, i + 1) ELSE i

RECURSIVE ParseInt(_)
ParseInt(ds) == IF ds = <<>> THEN 0
                ELSE 10 * ParseInt(SubSeq(ds, 1, Len(ds) - 1)) + DigitValue(ds[Len(ds)])

\* whether /progress\s*=\s*(\d+)%/ matches s at position i
MatchAt(s, i) ==
  /\ s[i] = "P"
  /\ LET e == DigitRun(s, i + 1) IN e > i + 1 /\ e <= Len(s) /\ s[e] = "%"

\* stderrData.match(/progress\s*=\s*(\d+)%/): the number of the leftmost
\* match, -1 when there is none (transcriber.js:128-130)
ProgressMatch(s) ==
  LET I == {i \in 1..Len(s) : MatchAt(s, i)} IN
  IF I = {} THEN -1
  ELSE LET i == CHOOSE x \in I : \A y \in I : x <= y
       IN ParseInt(SubSeq(s, i + 1, DigitRun(s, i + 1) - 1))

\* ------------------------------------------------------- paths
\* A path is a sequence of tokens: the name of an output directory, "/",
\* the names of the subdirectories, the timestamp of a recording and the
\* fixed pieces of the file names.  OddDir is an output directory whose own
\* name holds the text `_transcript.txt`.
OddDir == "C"

DirName(d) == IF d = OddDir THEN <<d, "_transcript", ".txt">> ELSE <<d>>

\* path.join
Join(a, b) == a \o <<"/">> \o b

\* recorder.js:41-48 the file a session records to
RecordingPath(k) ==
  Join(Join(DirName(k[1]), <<"recordings">>), <<ToString(k[2]), "_recording", ".wav">>)

\* path.basename(p, ext)
Basename(p, ext) ==
  LET seps == {i \in 1..Len(p) : p[i] = "/"}
      last == IF seps = {} THEN 0 ELSE CHOOSE i \in seps : \A j \in seps : j <= i
      name == SubSeq(p, last + 1, Len(p))
  IN IF Len(name) > 1 /\ name[Len(name)] = ext
     THEN SubSeq(name, 1, Len(name) - 1) ELSE name

\* String.prototype.replace with a string pattern: the first occurrence
Replace(s, pat, rep) ==
  LET I == {i \in 1..(Len(s) - Len(pat) + 1) : SubSeq(s, i, i + Len(pat) - 1) = pat} IN
  IF I = {} THEN s
  ELSE LET i == CHOOSE x \in I : \A y \in I : x <= y
       IN SubSeq(s, 1, i - 1) \o rep \o SubSeq(s, i + Len(pat), Len(s))

\* a transcribe that writes the transcript next to the recording
TranscriptPathBesideWav(wavPath, outputDir) ==
  Replace(wavPath, <<"_recording", ".wav">>, <<"_recording", "_transcript", ".txt">>)

\* transcriber.js:93-101, 147 the file whisper is told to write
TranscriptPath(wavPath, outputDir) ==
  Join(Join(DirName(outputDir), <<"processed">>),
       Basename(wavPath, ".wav") \o <<"_transcript">>) \o <<".txt">>

\* a generateNotes that writes one notes file per processed directory
NotesPathOfDirectory(transcriptPath) ==
  SubSeq(transcriptPath, 1, Len(transcriptPath) - Len(Basename(transcriptPath, "")))
    \o <<"notes", ".md">>

\* fileManager.js:344 the file generateNotes writes
NotesPath(transcriptPath) ==
  Replace(transcriptPath, <<"_transcript", ".txt">>, <<"_notes", ".md">>)

\* main.js:675-676, 733, 740 the derived files of a recording in the
\* processed directory, as files:list and files:delete name them
TranscriptFile(k) ==
  Join(Join(DirName(k[1]), <<"processed">>),
       <<ToString(k[2]), "_recording", "_transcript", ".txt">>)

NotesFile(k) ==
  Join(Join(DirName(k[1]), <<"processed">>),
       <<ToString(k[2]), "_recording", "_notes", ".md">>)

NewJob(wav, dir, chain) ==
  [wav |-> wav, out |-> Key(dir, wav[2]), phase |-> "whisper", chain |-> chain,
   ran |-> FALSE, stderrData |-> <<>>, lastProgress |-> 0, callbacks |-> <<>>]

\* transcribe(wavPath, outputDir, cb) up to the spawn of whisper
\* (transcriber.js:83-116): "spawned", or the error it throws
TranscribeStart(wav, whisper) ==
  IF ~Exists(recordings, wav) THEN "SourceNotFound"
  ELSE IF whisper # "ok" THEN whisper
  ELSE "spawned"

RECURSIVE Repeat(_, _)
Repeat(x, n) == IF n = 0 THEN <<>> ELSE Append(Repeat(x, n - 1), x)

\* a call that stays pending after its outcome was delivered
KeepAt(s, j) == s

\* the pending calls without call j, which has settled
RemoveAt(s, j) == SubSeq(s, 1, j - 1) \o SubSeq(s, j + 1, Len(s))

\* a 'close' handler that checks the exit code and the file, not its size
CloseResultAnySize(code, out) ==
  IF code = 0
  THEN IF Exists(transcripts, out) THEN "resolved" ELSE "TranscriptNotCreated"
  ELSE "EngineFailure"

\* transcriber.js:145-166 the 'close' handler: what the promise settles with
CloseResult(code, out) ==
  IF code = 0
  THEN IF Exists(transcripts, out)
       THEN IF transcripts[out] = "empty" THEN "TranscriptEmpty" ELSE "resolved"
       ELSE "TranscriptNotCreated"
  ELSE "EngineFailure"

\* transcriber.js:164 the text an EngineFailure carries
CloseDetail(code, stderrData) == IF code = 0 THEN <<>> ELSE stderrData

\* ------------------------------------------------------- coordinator
recVars == <<recs, procs, timers>>
fileVars == <<recordings, transcripts, notes>>
jobVars == <<jobs, transcribed>>

Ready == recs # <<>>

Defaults == [outputDirectory |-> DefaultDir, retentionDays |-> RETENTION_DAYS,
             autoProcess |-> TRUE]

\* main.js:144-149 initRecorder: a new Recorder replaces `recorder`
initRecorder(outputDir) == Append(recs, NewRecorder(outputDir))

\* main.js:931-946 app.whenReady: initRecorder, then the startup sweep
WhenReady ==
  /\ ~Ready
  /\ recs' = initRecorder(store.outputDirectory)
  /\ Sweep("runCleanup")
  /\ UNCHANGED <<now, store, procs, timers, jobs, transcribed>>

\* main.js:322-374 tray "Start Recording"
HandleStartRecording ==
  /\ Ready
  /\ \E deviceFound \in BOOLEAN, spawnOk \in BOOLEAN :
       RecorderStart(recorder, deviceFound, spawnOk)
  /\ UNCHANGED <<now, store, fileVars, jobVars>>

\* main.js:602-615 recording:start
IpcRecordingStart ==
  /\ Ready
  /\ \E deviceFound \in BOOLEAN, spawnOk \in BOOLEAN :
       RecorderStart(recorder, deviceFound, spawnOk)
  /\ UNCHANGED <<now, store, fileVars, jobVars>>

\* main.js:379-381 tray "Stop Recording", up to `await recorder.stop()`
HandleStopRecording ==
  /\ Ready
  /\ RecorderStop(recorder)
  /\ UNCHANGED <<now, store, fileVars, jobVars>>

\* main.js:617-619 recording:stop, up to `await recorder.stop()`
IpcRecordingStop ==
  /\ Ready
  /\ RecorderStop(recorder)
  /\ UNCHANGED <<now, store, fileVars, jobVars>>

\* main.js:643-654 recording:status.  Without a recorder the answer has no
\* duration; with one, `status.duration` is read from what getStatus()
\* returned, and reading a property of null throws a TypeError that rejects
\* the request.  `active` records whether a session was recording.
IpcRecordingStatus ==
  /\ lastOp' =
       IF ~Ready
       THEN [op |-> "recordingStatus", active |-> FALSE, error |-> "none",
             answer |-> {[isRecording |-> FALSE, duration |-> {}]}]
       ELSE LET status == getStatus(recorder) IN
            IF status = {}
            THEN [op |-> "recordingStatus", active |-> recs[recorder].isRecording,
                  error |-> "TypeError", answer |-> {}]
            ELSE [op |-> "recordingStatus", active |-> recs[recorder].isRecording,
                  error |-> "none",
                  answer |-> {[isRecording |-> recs[recorder].isRecording,
                               duration |-> {s.duration : s \in status}]}]
  /\ UNCHANGED <<now, store, recVars, fileVars, jobVars>>

\* main.js:983-1000 before-quit; activeProcesses is never filled
BeforeQuit ==
  /\ Ready
  /\ recs[recorder].isRecording
  /\ RecorderCleanup(recorder)
  /\ UNCHANGED <<now, store, fileVars, jobVars>>

\* a field of the settings object: {} when undefined, else {value}
Given(field) == field # {}
ValueOf(field) == CHOOSE v \in field : TRUE

\* main.js:871-890 settings:update
SettingsUpdate(settings) ==
  /\ Ready
  /\ store' = [outputDirectory |-> IF Given(settings.outputDirectory)
                                   THEN ValueOf(settings.outputDirectory)
                                   ELSE store.outputDirectory,
               retentionDays |-> IF Given(settings.retentionDays)
                                 THEN ValueOf(settings.retentionDays)
                                 ELSE store.retentionDays,
               autoProcess |-> IF Given(settings.autoProcess)
                               THEN ValueOf(settings.autoProcess)
                               ELSE store.autoProcess]
  /\ IF Given(settings.outputDirectory)
     THEN /\ Len(recs) < MaxRecs
          /\ recs' = initRecorder(ValueOf(settings.outputDirectory))
     ELSE UNCHANGED recs
  /\ lastOp' = [op |-> "settingsUpdate"]
  /\ UNCHANGED <<now, procs, timers, fileVars, jobVars>>

\* main.js:892-901 settings:reset
SettingsReset ==
  /\ Ready
  /\ Len(recs) < MaxRecs
  /\ store' = Defaults
  /\ recs' = initRecorder(Defaults.outputDirectory)
  /\ lastOp' = [op |-> "settingsReset"]
  /\ UNCHANGED <<now, procs, timers, fileVars, jobVars>>

\* main.js:493-506 tray "Cleanup Old Recordings"
RunCleanup ==
  /\ Ready
  /\ Sweep("runCleanup")
  /\ UNCHANGED <<now, store, recVars, jobVars>>

\* main.js:754-775 files:cleanup
IpcFilesCleanup ==
  /\ Ready
  /\ Sweep("filesCleanup")
  /\ UNCHANGED <<now, store, recVars, jobVars>>

KnownStems == {k[2] : k \in DOMAIN recordings \cup DOMAIN transcripts \cup DOMAIN notes}

\* a delete that removes the recording and leaves the derived files
DeleteWavOnly(stem) ==
  LET k == Key(store.outputDirectory, stem) IN
  [wav |-> IF Exists(recordings, k) THEN {k} ELSE {}, transcript |-> {}, notes |-> {}]

\* the paths files:delete removes for a file name (main.js:724-741)
DeleteTargets(stem) ==
  LET k == Key(store.outputDirectory, stem) IN
  [wav |-> IF Exists(recordings, k) THEN {k} ELSE {},
   transcript |-> IF Exists(transcripts, k) THEN {k} ELSE {},
   notes |-> IF Exists(notes, k) THEN {k} ELSE {}]

\* the file name the renderer passes for a recording (main.js:664-668)
RecordingName(stem) == <<ToString(stem), "_recording", ".wav">>

\* main.js:722-745 the deletedFiles list of files:delete
DeletedFiles(filename, t) ==
  LET basename == Basename(filename, ".wav") IN
  (IF t.wav # {} THEN <<filename>> ELSE <<>>)
    \o (IF t.transcript # {} THEN <<basename \o <<"_transcript", ".txt">>>> ELSE <<>>)
    \o (IF t.notes # {} THEN <<basename \o <<"_notes", ".md">>>> ELSE <<>>)

\* main.js:718-752 files:delete
IpcFilesDelete(stem) ==
  LET t == DeleteTargets(stem) IN
  /\ Ready
  /\ recordings' = Unlink(recordings, t.wav)
  /\ transcripts' = Unlink(transcripts, t.transcript)
  /\ notes' = Unlink(notes, t.notes)
  /\ transcribed' = {e \in transcribed : e[2] \notin t.transcript}
  /\ lastOp' = [op |-> "filesDelete", stem |-> stem, success |-> TRUE,
                deletedFiles |-> t, names |-> DeletedFiles(RecordingName(stem), t)]
  /\ UNCHANGED <<now, store, recVars, jobs>>

\* ------------------------------------------------------- listings
\* readdirSync(recordingsDir) filtered by the `.wav` ending
WavFiles(dir) == {k \in DOMAIN recordings : k[1] = dir}

\* the orders of a set of files
Orders(S) ==
  {q \in [1..Cardinality(S) -> S] : \A i, j \in 1..Cardinality(S) : q[i] = q[j] => i = j}

\* Array.prototype.sort with the comparator (a, b) => time(b) - time(a):
\* descending; files of equal time in the order readdir gave them, which is
\* any order
SortedDescending(S, time) ==
  {q \in Orders(S) : \A i, j \in 1..Cardinality(S) : i < j => time[q[i]] >= time[q[j]]}

\* stats.mtime and stats.birthtime of the recording files
Modified == [k \in DOMAIN recordings |-> recordings[k].mtime]
Created == [k \in DOMAIN recordings |-> recordings[k].birthtime]

\* fs.existsSync for a path in a processed directory
ExistsAt(path) ==
  \/ \E k \in DOMAIN transcripts : TranscriptFile(k) = path
  \/ \E k \in DOMAIN notes : NotesFile(k) = path

\* main.js:671-675 the derived paths files:list looks for
ListedTranscriptPath(dir, filename) ==
  Join(Join(DirName(dir), <<"processed">>),
       Basename(filename, ".wav") \o <<"_transcript", ".txt">>)

ListedNotesPath(dir, filename) ==
  Join(Join(DirName(dir), <<"processed">>),
       Basename(filename, ".wav") \o <<"_notes", ".md">>)

\* main.js:666-686 the entry of files:list for a recording file
ListEntry(k) ==
  [key |-> k, filename |-> RecordingName(k[2]), filepath |-> RecordingPath(k),
   size |-> recordings[k].size, created |-> Created[k], modified |-> Modified[k],
   transcribed |-> ExistsAt(ListedTranscriptPath(k[1], RecordingName(k[2]))),
   summarized |-> ExistsAt(ListedNotesPath(k[1], RecordingName(k[2])))]

Entries(q) == [i \in DOMAIN q |-> ListEntry(q[i])]

\* main.js:657-694 what files:list returns when statSync fails for the files
\* in `bad`: the map has no try of its own, the handler's catch returns []
FilesListResult(dirExists, bad) ==
  IF ~dirExists \/ WavFiles(store.outputDirectory) \cap bad # {} THEN {<<>>}
  ELSE {Entries(q) : q \in SortedDescending(WavFiles(store.outputDirectory), Created)}

\* main.js:657-694 files:list; the recordings directory is there when it
\* holds a file
IpcFilesList(dirExists, bad) ==
  /\ Ready
  /\ dirExists \/ WavFiles(store.outputDirectory) = {}
  /\ \E result \in FilesListResult(dirExists, bad) :
       lastOp' = [op |-> "filesList", dirExists |-> dirExists, bad |-> bad,
                  files |-> WavFiles(store.outputDirectory), result |-> result]
  /\ UNCHANGED <<now, store, recVars, fileVars, jobVars>>

\* fileManager.js:188-233 what listRecordings returns when statSync fails
\* for the files in `bad` in the forEach and for those in `badLater` in the
\* comparator: the former are skipped; an exception of the comparator ends
\* the sort, in an order the engine defines, and the outer catch logs it
ListRecordingsResult(baseDir, dirExists, bad, badLater) ==
  LET listed == WavFiles(baseDir) \ bad IN
  IF ~dirExists THEN {<<>>}
  ELSE IF Cardinality(listed) >= 2 /\ listed \cap badLater # {} THEN Orders(listed)
  ELSE SortedDescending(listed, Modified)

\* fileManager.js:188-233 listRecordings(baseDir)
ListRecordings(baseDir, dirExists, bad, badLater) ==
  /\ dirExists \/ WavFiles(baseDir) = {}
  /\ \E result \in ListRecordingsResult(baseDir, dirExists, bad, badLater) :
       lastOp' = [op |-> "listRecordings", dirExists |-> dirExists,
                  bad |-> bad \cup badLater, files |-> WavFiles(baseDir),
                  result |-> [i \in DOMAIN result |->
                                [key |-> result[i], filename |-> RecordingName(result[i][2]),
                                 filepath |-> RecordingPath(result[i]),
                                 size |-> recordings[result[i]].size,
                                 modified |-> Modified[result[i]]]]]
  /\ UNCHANGED <<now, store, recVars, fileVars, jobVars>>

\* ------------------------------------------------- the sox subprocess
\* sox opens its output file, creating or truncating it
SoxOpen(p) ==
  /\ Running(p) /\ ~procs[p].opened /\ procs[p].signal # "KILL"
  /\ procs' = [procs EXCEPT ![p].opened = TRUE]
  /\ recordings' = Put(recordings, procs[p].file,
                       [size |-> 0, mtime |-> now,
                        birthtime |-> IF Exists(recordings, procs[p].file)
                                      THEN recordings[procs[p].file].birthtime ELSE now])
  /\ lastOp' = Quiet
  /\ UNCHANGED <<now, store, recs, timers, transcripts, notes, jobVars>>

\* sox writes audio, while it runs and when it flushes on SIGTERM
SoxWrite(p) ==
  /\ Running(p) /\ procs[p].opened /\ procs[p].signal # "KILL"
  /\ Exists(recordings, procs[p].file)
  /\ <<recordings[procs[p].file].size, recordings[procs[p].file].mtime>> # <<1, now>>
  /\ recordings' = Put(recordings, procs[p].file,
                       [recordings[procs[p].file] EXCEPT !.size = 1, !.mtime = now])
  /\ lastOp' = Quiet
  /\ UNCHANGED <<now, store, recVars, transcripts, notes, jobVars>>

\* sox has written audio up to `size` bytes
SoxGrow(p, size) ==
  /\ Running(p) /\ procs[p].opened /\ procs[p].signal # "KILL"
  /\ Exists(recordings, procs[p].file)
  /\ recordings[procs[p].file].size < size
  /\ recordings' = Put(recordings, procs[p].file,
                       [recordings[procs[p].file] EXCEPT !.size = size, !.mtime = now])
  /\ lastOp' = Quiet
  /\ UNCHANGED <<now, store, recVars, transcripts, notes, jobVars>>

\* recorder.js:124-147 what a pending stop() settles with at 'exit'
StopResult(r) ==
  IF ~Exists(recordings, recs[r].currentFile) THEN "FileNotCreated"
  ELSE IF recordings[recs[r].currentFile].size = 0 THEN "FileEmpty"
  ELSE "resolved"

\* main.js:398-402, 623-629 the jobs the stop handlers start once stop() has
\* settled: one processRecording per resolved stop() when autoProcess is set
AutoProcessCount(result, stops, whisper) ==
  IF result = "resolved" /\ store.autoProcess /\ whisper = "ok" THEN stops ELSE 0

WhisperEnv == {"ok", "BinaryNotFound", "ModelNotFound"}

\* The 'exit' event of sox subprocess p: the handler start() registered
\* (recorder.js:78-83), every handler a stop() registered (recorder.js:124-147)
\* and the continuation of each stop handler of the coordinator
\* (main.js:381-407, 619-641), which may call processRecording.
SoxExit(p, whisper) ==
  LET r == procs[p].owner
      n == procs[p].stops
      result == StopResult(r)
      started == AutoProcessCount(result, n, whisper)
  IN /\ Running(p)
     /\ Len(jobs) + started <= MaxJobs
     /\ procs' = [procs EXCEPT ![p] = Ended(r, "exited")]
     /\ recs' = [recs EXCEPT ![r].isRecording = FALSE]
     /\ jobs' = jobs \o Repeat(NewJob(recs[r].currentFile, store.outputDirectory, TRUE),
                               started)
     /\ lastOp' = [op |-> "soxExit", pid |-> p, stops |-> n,
                   result |-> IF n > 0 THEN result ELSE "none",
                   started |-> started]
     /\ UNCHANGED <<now, store, timers, fileVars, transcribed>>

\* a size test that also warns at the limit itself
SizeReached(size) == size >= maxRecordingSize

\* recorder.js:191 stats.size > this.maxRecordingSize
SizeExceeded(size) == size > maxRecordingSize

\* recorder.js:182-198 one tick of the size-check interval t
SizeTick(t) ==
  LET r == procs[t].owner IN
  /\ t \in timers
  /\ IF ~recs[r].isRecording \/ recs[r].currentFile = NoFile
     THEN /\ timers' = timers \ {recs[r].sizeInterval}
          /\ lastOp' = Quiet
     ELSE /\ timers' = timers
          /\ lastOp' = IF /\ Exists(recordings, recs[r].currentFile)
                          /\ SizeExceeded(recordings[recs[r].currentFile].size)
                       THEN [op |-> "sizeWarning", r |-> r]
                       ELSE Quiet
  /\ UNCHANGED <<now, store, recs, procs, fileVars, jobVars>>

\* ------------------------------------------------------------ the clock
TickSecond ==
  /\ now % MS_PER_DAY < MaxSeconds
  /\ now' = now + 1
  /\ lastOp' = Quiet
  /\ UNCHANGED <<store, recVars, fileVars, jobVars>>

TickDay ==
  /\ now + MS_PER_DAY <= MaxNow
  /\ now' = now + MS_PER_DAY
  /\ lastOp' = Quiet
  /\ UNCHANGED <<store, recVars, fileVars, jobVars>>

\* ------------------------------------------------- processing requests
KnownPaths == DOMAIN recordings \cup DOMAIN transcripts

\* a transcribe() call of the coordinator for wavPath; chain: whether
\* generateNotes follows (processRecording, process:full) or not
RequestTranscribe(op, wav, whisper, chain) ==
  LET r == TranscribeStart(wav, whisper) IN
  /\ Ready
  /\ IF r = "spawned"
     THEN /\ Len(jobs) < MaxJobs
          /\ jobs' = Append(jobs, NewJob(wav, store.outputDirectory, chain))
     ELSE jobs' = jobs
  /\ lastOp' = [op |-> op, result |-> r]
  /\ UNCHANGED <<now, store, recVars, fileVars, transcribed>>

\* main.js:788-807 process:transcribe
IpcProcessTranscribe ==
  \E wav \in KnownPaths, whisper \in WhisperEnv :
    RequestTranscribe("processTranscribe", wav, whisper, FALSE)

\* main.js:829-860 process:full
IpcProcessFull ==
  \E wav \in KnownPaths, whisper \in WhisperEnv :
    RequestTranscribe("processFull", wav, whisper, TRUE)

\* main.js:809-827 process:summarize: generateNotes(transcriptPath) begins
\* with the health probe, an await
IpcProcessSummarize ==
  /\ Ready
  /\ Len(jobs) < MaxJobs
  /\ \E t \in KnownPaths :
       /\ jobs' = Append(jobs, [NewJob(t, t[1], FALSE) EXCEPT !.phase = "probe"])
       /\ lastOp' = [op |-> "processSummarize", result |-> "probing"]
  /\ UNCHANGED <<now, store, recVars, fileVars, transcribed>>

\* ---------------------------------------------- the whisper subprocess
TranscriptContents == {"empty", "blank", "text"}

\* whisper writes <outputPrefix>.txt
WhisperWrite(j, c) ==
  /\ jobs[j].phase = "whisper"
  /\ Content(transcripts, jobs[j].out) # c
  /\ transcripts' = Put(transcripts, jobs[j].out, c)
  /\ jobs' = [jobs EXCEPT ![j].ran = TRUE]
  /\ lastOp' = Quiet
  /\ UNCHANGED <<now, store, recVars, recordings, notes, transcribed>>

\* transcriber.js:122-137 a 'data' event of whisper's stderr
StderrData(job, chunk) ==
  LET data == job.stderrData \o chunk
      progress == ProgressMatch(data)
      calls == progress # -1 /\ progress # job.lastProgress
  IN [job EXCEPT !.stderrData = data, !.ran = TRUE,
                 !.lastProgress = IF calls THEN progress ELSE @,
                 !.callbacks = IF calls THEN Append(@, progress) ELSE @]

WhisperStderr(j, chunk) ==
  /\ jobs[j].phase = "whisper"
  /\ Len(jobs[j].stderrData) + Len(chunk) <= MaxStderr
  /\ jobs' = [jobs EXCEPT ![j] = StderrData(jobs[j], chunk)]
  /\ lastOp' = Quiet
  /\ UNCHANGED <<now, store, recVars, fileVars, transcribed>>

ExitCodes == {0, 1}

\* a pipeline that goes on to generateNotes whatever transcribe ended with
ChainContinuesAnyway(result, chain) == chain

\* main.js:426-437, 834-845 generateNotes follows `await transcribe(...)` in
\* the same try block: it is reached when transcribe resolved
ChainContinues(result, chain) == result = "resolved" /\ chain

\* transcriber.js:145-166 the 'close' event; a resolved chain goes on to
\* generateNotes (main.js:437, 845)
WhisperClose(j, code) ==
  LET job == jobs[j]
      result == CloseResult(code, job.out)
  IN /\ job.phase = "whisper"
     /\ jobs' = IF ChainContinues(result, job.chain)
                THEN [jobs EXCEPT ![j].phase = "probe"]
                ELSE RemoveAt(jobs, j)
     /\ transcribed' = IF result = "resolved"
                       THEN transcribed \cup {<<job.wav, job.out>>}
                       ELSE transcribed
     /\ lastOp' = [op |-> "transcribeDone", job |-> j, code |-> code, result |-> result,
                   chain |-> job.chain, wav |-> job.wav,
                   path |-> IF result = "resolved" THEN job.out ELSE NoFile,
                   wavPath |-> RecordingPath(job.wav),
                   transcriptPath |-> IF result = "resolved"
                                      THEN TranscriptPath(RecordingPath(job.wav), job.out[1])
                                      ELSE <<>>,
                   detail |-> CloseDetail(code, job.stderrData)]
     /\ UNCHANGED <<now, store, recVars, fileVars>>

\* transcriber.js:169-171 the 'error' event: whisper could not be spawned
WhisperError(j) ==
  /\ jobs[j].phase = "whisper" /\ ~jobs[j].ran
  /\ jobs' = RemoveAt(jobs, j)
  /\ lastOp' = [op |-> "transcribeError", result |-> "SpawnFailure",
                chain |-> jobs[j].chain, wav |-> jobs[j].wav]
  /\ UNCHANGED <<now, store, recVars, fileVars, transcribed>>

\* ------------------------------------------------------- summariser
\* what GET /api/tags ends with: a model list, a refused connection, the
\* 3 s timeout of AbortSignal.timeout, a non-OK status, an empty model list
HealthEnv == {"ok", "refused", "timeout", "badStatus", "nomodels"}

\* the exception a fetch, or the read of its body, rejects with: a refused
\* connection is a TypeError `fetch failed`, the timeout signal aborts the
\* fetch with its reason, a DOMException named TimeoutError, and a
\* connection lost while the body is read is a TypeError `terminated`
FetchError(outcome) ==
  IF outcome = "refused" THEN "fetch failed"
  ELSE IF outcome = "timeout" THEN "TimeoutError"
  ELSE IF outcome = "terminated" THEN "terminated"
  ELSE "none"

\* fileManager.js:305-317, 445-450 the catch clauses: which exceptions are
\* turned into the service-unavailable error
Normalized(err) == err \in {"AbortError", "fetch failed"}

\* fileManager.js:277-318 checkOllamaHealth
checkOllamaHealth(health) ==
  IF FetchError(health) # "none"
  THEN IF Normalized(FetchError(health)) THEN "ServiceUnavailable" ELSE FetchError(health)
  ELSE IF health = "badStatus" THEN "HealthStatus"
  ELSE IF health = "nomodels" THEN "NoModelsInstalled"
  ELSE "ok"

\* a transcript is blank when transcript.trim() is empty (fileManager.js:339)
BlankTranscript(c) == c \in {"empty", "blank"}

\* a generateNotes that validates the transcript before it probes the service
NotesPrecheckFileFirst(health, t) ==
  IF ~Exists(transcripts, t) THEN "TranscriptNotFound"
  ELSE IF BlankTranscript(transcripts[t]) THEN "EmptyTranscript"
  ELSE IF checkOllamaHealth(health) # "ok" THEN checkOllamaHealth(health)
  ELSE "requested"

\* fileManager.js:328-341 generateNotes up to the generation request
NotesPrecheck(health, t) ==
  IF checkOllamaHealth(health) # "ok" THEN checkOllamaHealth(health)
  ELSE IF ~Exists(transcripts, t) THEN "TranscriptNotFound"
  ELSE IF BlankTranscript(transcripts[t]) THEN "EmptyTranscript"
  ELSE "requested"

\* generateNotes from the answer of the health probe to POST /api/generate
NotesProbe(j, health) ==
  LET r == NotesPrecheck(health, jobs[j].out) IN
  /\ jobs[j].phase = "probe"
  /\ jobs' = IF r = "requested" THEN [jobs EXCEPT ![j].phase = "stream"]
             ELSE RemoveAt(jobs, j)
  /\ lastOp' = [op |-> "notesProbe", job |-> jobs[j], health |-> health,
                result |-> r, requested |-> (r = "requested")]
  /\ UNCHANGED <<now, store, recVars, fileVars, transcribed>>

\* The response body as characters.  "{" and "}" delimit a JSON object; in
\* between, "a" and " " are text of its response field and "!" is its error
\* field; "x" is text that is no JSON; NL ends a line.
NL == "\n"
TextChars == {"a", " "}
FieldChars == TextChars \cup {"!"}

\* JSON.parse(line) succeeds
WellFormed(line) ==
  /\ Len(line) >= 2
  /\ line[1] = "{" /\ line[Len(line)] = "}"
  /\ \A i \in 2..(Len(line) - 1) : line[i] \in FieldChars

\* json.response and json.error of a parsed line
ResponseOf(line) == SelectSeq(line, LAMBDA c : c \in TextChars)
ErrorOf(line) == \E i \in 1..Len(line) : line[i] = "!"

\* s.trim()
RECURSIVE TrimLeft(_)
TrimLeft(s) == IF s # <<>> /\ Head(s) \in {" ", NL} THEN TrimLeft(Tail(s)) ELSE s

RECURSIVE TrimRight(_)
TrimRight(s) ==
  IF s # <<>> /\ s[Len(s)] \in {" ", NL} THEN TrimRight(SubSeq(s, 1, Len(s) - 1)) ELSE s

Trim(s) == TrimRight(TrimLeft(s))

\* chunk.split('\n')
RECURSIVE SplitLines(_)
SplitLines(chunk) ==
  LET I == {i \in 1..Len(chunk) : chunk[i] = NL} IN
  IF I = {} THEN <<chunk>>
  ELSE LET i == CHOOSE x \in I : \A y \in I : x <= y
       IN <<SubSeq(chunk, 1, i - 1)>> \o SplitLines(SubSeq(chunk, i + 1, Len(chunk)))

\* fileManager.js:404-405 the lines of one network chunk that are parsed
LinesOf(chunk) == SelectSeq(SplitLines(chunk), LAMBDA line : Trim(line) # <<>>)

\* fileManager.js:407-428 the loop over the lines of a chunk: a line that
\* parses adds its response; what is thrown inside the try, the SyntaxError
\* of JSON.parse or the error of line 420, ends in the catch of line 423
RECURSIVE AddLines(_, _)
AddLines(fullResponse, lines) ==
  IF lines = <<>> THEN fullResponse
  ELSE AddLines(IF WellFormed(Head(lines))
                THEN fullResponse \o ResponseOf(Head(lines))
                ELSE fullResponse,
                Tail(lines))

\* fileManager.js:399-429 the read loop: fullResponse after the last chunk
RECURSIVE Accumulate(_, _)
Accumulate(fullResponse, chunks) ==
  IF chunks = <<>> THEN fullResponse
  ELSE Accumulate(AddLines(fullResponse, LinesOf(Head(chunks))), Tail(chunks))

\* fileManager.js:438 the text written to the notes file
WrittenVerbatim(fullResponse) == fullResponse

Written(fullResponse) == Trim(fullResponse)

\* what POST /api/generate ends with: a refused connection, a non-OK
\* status, a body that arrives in network chunks, or a connection lost
\* after these chunks
Response(status, chunks) == [status |-> status, chunks |-> chunks]

\* fileManager.js:376-451 what generateNotes ends with for a response that
\* is to be written to outputPath; the processed directory of the transcript
\* exists, a directory of another name does not
NotesResult(resp, outputPath, k) ==
  IF FetchError(resp.status) # "none"
  THEN IF Normalized(FetchError(resp.status)) THEN "ServiceUnavailable"
       ELSE FetchError(resp.status)
  ELSE IF resp.status = "badStatus" THEN "RequestFailed"
  ELSE IF Trim(Accumulate(<<>>, resp.chunks)) = <<>> THEN "EmptyGeneration"
  ELSE IF outputPath # NotesFile(k) THEN "WriteFailed"
  ELSE "resolved"

\* a generateNotes that writes what it accumulated before it checks it
NotesWrittenUnchecked(result, k, fullResponse) ==
  IF result \in {"resolved", "EmptyGeneration"}
  THEN Put(notes, k, Written(fullResponse)) ELSE notes

\* fileManager.js:432-438 the notes files after the call: the write is the
\* last statement before the return
NotesWritten(result, k, fullResponse) ==
  IF result = "resolved" THEN Put(notes, k, Written(fullResponse)) ELSE notes

\* generateNotes from the response to its end (fileManager.js:376-451)
NotesFinish(j, resp) ==
  LET k == jobs[j].out
      transcriptPath == IF jobs[j].chain
                        THEN TranscriptPath(RecordingPath(jobs[j].wav), k[1])
                        ELSE TranscriptFile(k)
      outputPath == NotesPath(transcriptPath)
      fullResponse == IF resp.status = "ok" THEN Accumulate(<<>>, resp.chunks) ELSE <<>>
      result == NotesResult(resp, outputPath, k)
  IN /\ jobs[j].phase = "stream"
     /\ jobs' = RemoveAt(jobs, j)
     /\ notes' = NotesWritten(result, k, fullResponse)
     /\ lastOp' = [op |-> "notesDone", job |-> jobs[j], resp |-> resp,
                   result |-> result, fullResponse |-> fullResponse,
                   transcriptPath |-> transcriptPath,
                   path |-> IF result = "resolved" THEN outputPath ELSE <<>>]
     /\ UNCHANGED <<now, store, recVars, recordings, transcripts, transcribed>>

\* ------------------------------------- summarising the file at a path
\* process:summarize passes the path it receives to generateNotes as it is.
\* The text files there are, by path: the transcripts and the notes.
TranscriptsAt(path) == {k \in DOMAIN transcripts : TranscriptFile(k) = path}
NotesAt(path) == {k \in DOMAIN notes : NotesFile(k) = path}

TextPaths ==
  {TranscriptFile(k) : k \in DOMAIN transcripts} \cup {NotesFile(k) : k \in DOMAIN notes}

\* fileManager.js:339 transcript.trim().length === 0 for the file at path
BlankAt(path) ==
  \/ \E k \in TranscriptsAt(path) : BlankTranscript(transcripts[k])
  \/ \E k \in NotesAt(path) : Trim(notes[k]) = <<>>

\* fileManager.js:328-341 generateNotes up to the generation request, for
\* the file at transcriptPath
PrecheckAt(health, transcriptPath) ==
  IF checkOllamaHealth(health) # "ok" THEN checkOllamaHealth(health)
  ELSE IF ~ExistsAt(transcriptPath) THEN "TranscriptNotFound"
  ELSE IF BlankAt(transcriptPath) THEN "EmptyTranscript"
  ELSE "requested"

\* the notes files fs.writeFileSync(outputPath, ...) may write: those of the
\* processed directories that exist
WritableNotes(outputPath) ==
  {k \in DOMAIN recordings \cup DOMAIN transcripts \cup DOMAIN notes :
     NotesFile(k) = outputPath}

\* fileManager.js:328-452 generateNotes(transcriptPath): what it ends with
\* and the notes files after it
generateNotes(transcriptPath, health, resp) ==
  LET pre == PrecheckAt(health, transcriptPath)
      outputPath == NotesPath(transcriptPath)
      fullResponse == IF resp.status = "ok" THEN Accumulate(<<>>, resp.chunks) ELSE <<>>
      result ==
        IF pre # "requested" THEN pre
        ELSE IF FetchError(resp.status) # "none"
        THEN IF Normalized(FetchError(resp.status)) THEN "ServiceUnavailable"
             ELSE FetchError(resp.status)
        ELSE IF resp.status = "badStatus" THEN "RequestFailed"
        ELSE IF Trim(fullResponse) = <<>> THEN "EmptyGeneration"
        ELSE IF WritableNotes(outputPath) = {} THEN "WriteFailed"
        ELSE "resolved"
  IN [result |-> result,
      outputPath |-> IF pre = "requested" THEN outputPath ELSE <<>>,
      notes |-> IF result = "resolved"
                THEN Put(notes, CHOOSE k \in WritableNotes(outputPath) : TRUE,
                         Written(fullResponse))
                ELSE notes]

\* main.js:809-827 process:summarize for the path of a text file, from the
\* request to its answer
IpcProcessSummarizePath(transcriptPath, health, resp) ==
  LET r == generateNotes(transcriptPath, health, resp) IN
  /\ Ready
  /\ notes' = r.notes
  /\ lastOp' = [op |-> "summarizePath", transcriptPath |-> transcriptPath,
                success |-> (r.result = "resolved"), result |-> r.result,
                notesPath |-> r.outputPath]
  /\ UNCHANGED <<now, store, recs, procs, timers, recordings, transcripts, jobs, transcribed>>

\* ------------------------------------------------------- specifications
\* the lines a response body is made of: an object with text, one with
\* white space, one with an error, and a line that is no JSON
LineKinds == {<<"{", "a", "}">>, <<"{", " ", "}">>, <<"{", "!", "}">>, <<"x">>}

RECURSIVE SeqsUpTo(_, _)
SeqsUpTo(S, n) ==
  IF n = 0 THEN {<<>>}
  ELSE SeqsUpTo(S, n - 1) \cup
       {Append(q, x) : q \in {r \in SeqsUpTo(S, n - 1) : Len(r) = n - 1}, x \in S}

\* newline-delimited JSON: every line ends with NL
RECURSIVE BodyOf(_)
BodyOf(lines) ==
  IF lines = <<>> THEN <<>> ELSE Head(lines) \o <<NL>> \o BodyOf(Tail(lines))

\* every way of cutting a body into network chunks
RECURSIVE Splits(_)
Splits(body) ==
  IF body = <<>> THEN {<<>>}
  ELSE UNION {{<<SubSeq(body, 1, i)>> \o rest :
                 rest \in Splits(SubSeq(body, i + 1, Len(body)))} : i \in 1..Len(body)}

Bodies == {BodyOf(lines) : lines \in SeqsUpTo(LineKinds, MaxLines)}

\* the answers of the generation service: no connection, a non-OK status, a
\* body in any chunking, and a one-line body after which the connection is
\* lost
ResponseEnv ==
  {Response("refused", <<>>), Response("badStatus", <<>>)} \cup
  {Response("ok", chunks) : chunks \in UNION {Splits(body) : body \in Bodies}} \cup
  {Response("terminated", chunks) :
     chunks \in UNION {Splits(BodyOf(<<line>>)) : line \in LineKinds}}

\* the responses of the pipeline specifications: no connection, a non-OK
\* status, an empty body, and bodies of one object, of white space or of
\* text, in one chunk
PipelineResponses ==
  {Response("refused", <<>>), Response("badStatus", <<>>), Response("ok", <<>>),
   Response("ok", <<BodyOf(<<<<"{", " ", "}">>>>)>>),
   Response("ok", <<BodyOf(<<<<"{", "a", "}">>>>)>>)}

Optional(S) == {{}} \cup {{v} : v \in S}

\* settings:update requests: any subset of the three fields
SettingsInputs ==
  [outputDirectory : Optional(Dirs),
   retentionDays : Optional(RetentionInputs),
   autoProcess : Optional(BOOLEAN)]

\* settings:update requests of the capture side: the directory is set again
\* (which re-creates the recorder) and auto-processing is switched
CaptureSettings ==
  [outputDirectory : Optional({DefaultDir}),
   retentionDays : {{}},
   autoProcess : Optional(BOOLEAN)]

\* stderr delivered in the finest chunkings: one or two characters at a time
SmallChunks == {<<a>> : a \in Alphabet} \cup {<<a, b>> : a \in Alphabet, b \in Alphabet}

\* A machine on which the app ran before: one recording two days old, with
\* its transcript and notes.
OldFile == Key(DefaultDir, OldStem)
OldNotes == <<"o">>

InitWith(settings, wavs, texts, done) ==
  /\ now = 0
  /\ store = settings
  /\ recs = <<>>
  /\ procs = <<>>
  /\ timers = {}
  /\ recordings = wavs
  /\ transcripts = texts
  /\ notes = [k \in DOMAIN texts |-> OldNotes]
  /\ jobs = <<>>
  /\ transcribed = done
  /\ lastOp = Quiet

\* The capture side: the coordinator's recording handlers, settings, shutdown,
\* the sox subprocess and the recorder's timers, on a fresh installation.
Init == InitWith(Defaults, <<>>, <<>>, {})

Next ==
  \/ WhenReady
  \/ HandleStartRecording
  \/ IpcRecordingStart
  \/ HandleStopRecording
  \/ IpcRecordingStop
  \/ BeforeQuit
  \/ \E settings \in CaptureSettings : SettingsUpdate(settings)
  \/ SettingsReset
  \/ \E p \in 1..Len(procs) : SoxOpen(p)
  \/ \E p \in 1..Len(procs) : SoxWrite(p)
  \/ \E p \in 1..Len(procs), whisper \in WhisperEnv : SoxExit(p, whisper)
  \/ \E t \in timers : SizeTick(t)
  \/ TickSecond

Spec == Init /\ [][Next]_vars

\* The whole pipeline around one capture session: recording, processing
\* requests, the whisper subprocess, the summariser, the retention sweeps,
\* deletes, settings and shutdown, on a machine that holds an old recording
\* with its transcript and notes.
InitP ==
  InitWith(Defaults,
           Put(<<>>, OldFile, [size |-> 1, mtime |-> OldStem, birthtime |-> OldStem]),
           Put(<<>>, OldFile, "text"),
           {<<OldFile, OldFile>>})

\* one capture session with one stop() request and one processing job at a
\* time, and processing only while no capture subprocess runs
OneSession ==
  /\ Len(procs) <= 1
  /\ Len(recs) <= 2
  /\ Len(jobs) <= 1
  /\ \A p \in 1..Len(procs) : procs[p].stops <= 1

Sequential == jobs = <<>> \/ \A p \in 1..Len(procs) : ~Running(p)

\* the processed directory is as the earlier run left it, or emptier
Untouched ==
  /\ jobs = <<>>
  /\ DOMAIN transcripts \subseteq {OldFile}
  /\ \A k \in DOMAIN transcripts : transcripts[k] = "text"

\* one activity in a run: the recorder is used only while the processed
\* directory is untouched, and processing is requested by hand only while no
\* subprocess has been spawned; the processing that follows a stop() is free
OneActivity ==
  /\ <<recs, procs, timers>> # <<recs, procs, timers>>' => Untouched
  /\ (Len(jobs') > Len(jobs) /\ procs' = procs) => procs = <<>>

\* a step of the pipeline specification stays within its bounds
Within(A) == A /\ OneSession' /\ Sequential' /\ OneActivity

NextP ==
  \/ Within(WhenReady)
  \/ Within(HandleStartRecording)
  \/ Within(IpcRecordingStart)
  \/ Within(HandleStopRecording)
  \/ Within(IpcRecordingStop)
  \/ Within(BeforeQuit)
  \/ \E settings \in SettingsInputs : Within(SettingsUpdate(settings))
  \/ Within(SettingsReset)
  \/ Within(RunCleanup)
  \/ Within(IpcFilesCleanup)
  \/ \E stem \in KnownStems : Within(IpcFilesDelete(stem))
  \/ \E p \in 1..Len(procs) : Within(SoxOpen(p))
  \/ \E p \in 1..Len(procs) : Within(SoxWrite(p))
  \/ \E p \in 1..Len(procs), whisper \in WhisperEnv : Within(SoxExit(p, whisper))
  \/ \E t \in timers : Within(SizeTick(t))
  \/ Within(IpcProcessTranscribe)
  \/ Within(IpcProcessFull)
  \/ Within(IpcProcessSummarize)
  \/ \E j \in 1..Len(jobs), c \in TranscriptContents : Within(WhisperWrite(j, c))
  \/ \E j \in 1..Len(jobs), code \in ExitCodes : Within(WhisperClose(j, code))
  \/ \E j \in 1..Len(jobs) : Within(WhisperError(j))
  \/ \E j \in 1..Len(jobs), health \in HealthEnv : Within(NotesProbe(j, health))
  \/ \E j \in 1..Len(jobs), resp \in PipelineResponses : Within(NotesFinish(j, resp))

SpecP == InitP /\ [][NextP]_vars

\* The transcriber alone: one recording that was never processed, transcribe
\* requests (one at a time), and a whisper subprocess whose diagnostics
\* arrive in any chunking.
InitT ==
  InitWith(Defaults,
           Put(<<>>, OldFile, [size |-> 1, mtime |-> OldStem, birthtime |-> OldStem]),
           <<>>, {})

NextT ==
  \/ WhenReady
  \/ IpcProcessTranscribe /\ Len(jobs') <= 1
  \/ \E j \in 1..Len(jobs), c \in TranscriptContents : WhisperWrite(j, c)
  \/ \E j \in 1..Len(jobs), chunk \in SmallChunks : WhisperStderr(j, chunk)
  \/ \E j \in 1..Len(jobs), code \in ExitCodes : WhisperClose(j, code)
  \/ \E j \in 1..Len(jobs) : WhisperError(j)

SpecT == InitT /\ [][NextT]_vars

\* The processing side: one recording two days old, made in the default
\* output directory or in OddDir, that has no transcript yet or a transcript
\* (empty, blank or with text) and notes from an earlier run; the processing
\* requests (one at a time), a change of the output directory, deletes, the
\* whisper subprocess, and the generation service.
NotesDirs == {DefaultDir, OddDir}

NotesSettings ==
  [outputDirectory : {{d} : d \in NotesDirs}, retentionDays : {{}}, autoProcess : {{}}]

InitN ==
  \E d \in NotesDirs, c \in Optional(TranscriptContents) :
    LET k == Key(d, OldStem) IN
    InitWith([Defaults EXCEPT !.outputDirectory = d],
             Put(<<>>, k, [size |-> 1, mtime |-> OldStem, birthtime |-> OldStem]),
             IF c = {} THEN <<>> ELSE Put(<<>>, k, ValueOf(c)),
             IF c = {} THEN {} ELSE {<<k, k>>})

NextN ==
  \/ WhenReady
  \/ \E settings \in NotesSettings : SettingsUpdate(settings)
  \/ \E stem \in KnownStems : IpcFilesDelete(stem)
  \/ IpcProcessTranscribe /\ Len(jobs') <= 1
  \/ IpcProcessFull /\ Len(jobs') <= 1
  \/ IpcProcessSummarize /\ Len(jobs') <= 1
  \/ \E j \in 1..Len(jobs), c \in TranscriptContents : WhisperWrite(j, c)
  \/ \E j \in 1..Len(jobs), code \in ExitCodes : WhisperClose(j, code)
  \/ \E j \in 1..Len(jobs) : WhisperError(j)
  \/ \E j \in 1..Len(jobs), health \in HealthEnv : NotesProbe(j, health)
  \/ \E j \in 1..Len(jobs), resp \in PipelineResponses : NotesFinish(j, resp)

SpecN == InitN /\ [][NextN]_vars

\* The summariser alone: summarize requests (one at a time) for the
\* transcript of InitN and a generation service whose response body arrives
\* in any chunking.
NextG ==
  \/ WhenReady
  \/ IpcProcessSummarize /\ Len(jobs') <= 1
  \/ \E j \in 1..Len(jobs), health \in HealthEnv : NotesProbe(j, health)
  \/ \E j \in 1..Len(jobs), resp \in ResponseEnv : NotesFinish(j, resp)

SpecG == InitN /\ [][NextG]_vars

\* The retention sweep: every retention value the settings allow, and two
\* recordings (the first with a transcript and notes) whose ages lie around
\* the retention threshold, far below it or far above it.
MinRetention == 1
MaxRetention == 30
RetentionRange == MinRetention..MaxRetention

\* modification times that make a file d days old give or take a second,
\* new, or older than any retention
MTimes(d) == {0 - d * MS_PER_DAY + e : e \in {-1, 0, 1}}
               \cup {0, 0 - (MaxRetention + 1) * MS_PER_DAY}

InitC ==
  \E d \in RetentionRange : \E m1 \in MTimes(d), m2 \in MTimes(d) :
    InitWith([Defaults EXCEPT !.retentionDays = d],
             Put(Put(<<>>, Key(DefaultDir, 1), [size |-> 1, mtime |-> m1, birthtime |-> m1]),
                 Key(DefaultDir, 2), [size |-> 1, mtime |-> m2, birthtime |-> m2]),
             Put(<<>>, Key(DefaultDir, 1), "text"),
             {<<Key(DefaultDir, 1), Key(DefaultDir, 1)>>})

NextC ==
  \/ WhenReady
  \/ RunCleanup
  \/ IpcFilesCleanup
  \/ TickSecond
  \/ TickDay

SpecC == InitC /\ [][NextC]_vars

\* The calls and their outcomes: the processing requests (one call at a
\* time) on the recording of the processing side, a whisper subprocess that
\* prints whole progress markers, writes its file, and exits or cannot be
\* spawned, and the generation service.  A whisper subprocess that runs does
\* exit, the health probe is answered or times out, and the response stream
\* ends or breaks: the three are weakly fair.
Markers == {<<"P", d, "%">> : d \in Digits}

NextV ==
  \/ WhenReady
  \/ IpcProcessTranscribe /\ Len(jobs') <= 1
  \/ IpcProcessFull /\ Len(jobs') <= 1
  \/ IpcProcessSummarize /\ Len(jobs') <= 1
  \/ \E j \in 1..Len(jobs), c \in TranscriptContents : WhisperWrite(j, c)
  \/ \E j \in 1..Len(jobs), chunk \in Markers : WhisperStderr(j, chunk)
  \/ \E j \in 1..Len(jobs), code \in ExitCodes : WhisperClose(j, code)
  \/ \E j \in 1..Len(jobs) : WhisperError(j)
  \/ \E j \in 1..Len(jobs), health \in HealthEnv : NotesProbe(j, health)
  \/ \E j \in 1..Len(jobs), resp \in PipelineResponses : NotesFinish(j, resp)

SpecV ==
  /\ InitN
  /\ [][NextV]_vars
  /\ WF_vars(\E j \in 1..Len(jobs), code \in ExitCodes : WhisperClose(j, code))
  /\ WF_vars(\E j \in 1..Len(jobs), health \in HealthEnv : NotesProbe(j, health))
  /\ WF_vars(\E j \in 1..Len(jobs), resp \in PipelineResponses : NotesFinish(j, resp))

\* Two pipelines: two recordings of the default output directory, process:full
\* requests that may overlap, a change of the output directory between
\* them, and for each pipeline a whisper subprocess that writes its file and
\* exits, the health probe and a generation response.
InitW ==
  InitWith(Defaults,
           Put(Put(<<>>, Key(DefaultDir, 1), [size |-> 1, mtime |-> 0, birthtime |-> 0]),
               Key(DefaultDir, 2), [size |-> 1, mtime |-> 0, birthtime |-> 0]),
           <<>>, {})

PipelineHealth == {"ok", "refused"}

NextW ==
  \/ WhenReady
  \/ \E settings \in NotesSettings : SettingsUpdate(settings)
  \/ IpcProcessFull
  \/ \E j \in 1..Len(jobs) : WhisperWrite(j, "text")
  \/ \E j \in 1..Len(jobs), code \in ExitCodes : WhisperClose(j, code)
  \/ \E j \in 1..Len(jobs), health \in PipelineHealth : NotesProbe(j, health)
  \/ \E j \in 1..Len(jobs) : NotesFinish(j, Response("ok", <<BodyOf(<<<<"{", "a", "}">>>>)>>))

SpecW == InitW /\ [][NextW]_vars

\* The size monitor: one recorder, its sessions with their subprocess, a
\* recording file that grows up to, to and beyond the limit, the ticks of
\* the size-check intervals, stop requests and shutdown.
FileSizes == {1, maxRecordingSize, maxRecordingSize + 1}

NextS ==
  \/ WhenReady
  \/ HandleStartRecording
  \/ HandleStopRecording
  \/ BeforeQuit
  \/ \E p \in 1..Len(procs) : SoxOpen(p)
  \/ \E p \in 1..Len(procs), size \in FileSizes : SoxGrow(p, size)
  \/ \E p \in 1..Len(procs), whisper \in WhisperEnv : SoxExit(p, whisper) /\ jobs' = <<>>
  \/ \E t \in timers : SizeTick(t)

SpecS == Init /\ [][NextS]_vars

\* Device resolution: enumerations of up to MaxDevices devices, among them
\* the known names, a known name in lower case and a device that is no
\* BlackHole, and an enumeration command that fails.
DeviceLines ==
  {possibleNames[i] : i \in DOMAIN possibleNames} \cup
  {<<"blackhole", " ", "16ch">>, <<"Speakers">>}

RECURSIVE JoinLines(_)
JoinLines(lines) ==
  IF lines = <<>> THEN <<>>
  ELSE IF Len(lines) = 1 THEN lines[1]
  ELSE lines[1] \o <<"\n">> \o JoinLines(Tail(lines))

Enumerations == {JoinLines(lines) : lines \in SeqsUpTo(DeviceLines, MaxDevices)}

NextD ==
  \E execOk \in BOOLEAN, audioDevices \in Enumerations : DetectDevice(execOk, audioDevices)

SpecD == Init /\ [][NextD]_vars

\* The retention setting: settings:update requests that carry a
\* retentionDays value (the handler stores what it is given), resets, and
\* sweeps over two recordings that are new, older than a day or older than
\* any retention.
RetentionRequests == {MinRetention - 1, MinRetention, MaxRetention, MaxRetention + 1}

RetentionSettings ==
  [outputDirectory : {{}}, retentionDays : {{d} : d \in RetentionRequests},
   autoProcess : {{}}]

Ages == {0, 0 - MS_PER_DAY - 1, 0 - (MaxRetention + 1) * MS_PER_DAY - 1}

InitR ==
  \E m1 \in Ages, m2 \in Ages :
    InitWith(Defaults,
             Put(Put(<<>>, Key(DefaultDir, 1), [size |-> 1, mtime |-> m1, birthtime |-> m1]),
                 Key(DefaultDir, 2), [size |-> 1, mtime |-> m2, birthtime |-> m2]),
             <<>>, {})

NextR ==
  \/ WhenReady
  \/ \E settings \in RetentionSettings : SettingsUpdate(settings)
  \/ SettingsReset
  \/ RunCleanup
  \/ IpcFilesCleanup
  \/ TickSecond

SpecR == InitR /\ [][NextR]_vars

\* The status query: one recorder, its sessions one after another with their
\* subprocess, the clock, shutdown, and recording:status at any moment,
\* before the application is ready included.
OneRecorder(A) == A /\ Len(procs') <= MaxProcs - 1 /\ Len(jobs') = 0

NextQ ==
  \/ WhenReady
  \/ OneRecorder(IpcRecordingStart)
  \/ IpcRecordingStop
  \/ IpcRecordingStatus
  \/ BeforeQuit
  \/ \E p \in 1..Len(procs) : SoxOpen(p)
  \/ \E p \in 1..Len(procs), whisper \in WhisperEnv : OneRecorder(SoxExit(p, whisper))
  \/ TickSecond

SpecQ == Init /\ [][NextQ]_vars

\* The listings: an output directory, the default one or OddDir, whose
\* recordings directory is missing, empty, or holds up
\* to MaxFiles recording files (the first with a transcript, the second with
\* a transcript and notes) whose creation and modification times are a few
\* seconds apart in any order; listings during which the metadata of some
\* files cannot be read; deletes.
FileTimes == {<<b, m>> \in ((0 - 2)..0) \X ((0 - 2)..0) : b <= m}

InitL ==
  \E d \in NotesDirs, n \in 0..MaxFiles : \E t \in [1..n -> FileTimes] :
    LET wavs == [k \in {Key(d, i) : i \in 1..n} |->
                   [size |-> 1, mtime |-> t[k[2]][2], birthtime |-> t[k[2]][1]]]
        texts == [k \in {Key(d, i) : i \in 1..n} \cap {Key(d, 1), Key(d, 2)} |-> "text"]
    IN /\ now = 0
       /\ store = [Defaults EXCEPT !.outputDirectory = d]
       /\ recs = <<>>
       /\ procs = <<>>
       /\ timers = {}
       /\ recordings = wavs
       /\ transcripts = texts
       /\ notes = [k \in DOMAIN texts \cap {Key(d, 2)} |-> OldNotes]
       /\ jobs = <<>>
       /\ transcribed = {<<k, k>> : k \in DOMAIN texts}
       /\ lastOp = Quiet

NextL ==
  \/ WhenReady
  \/ \E dirExists \in BOOLEAN, bad \in SUBSET DOMAIN recordings :
       IpcFilesList(dirExists, bad)
  \/ \E dirExists \in BOOLEAN, bad \in SUBSET DOMAIN recordings,
        badLater \in SUBSET DOMAIN recordings :
       /\ bad \cap badLater = {}
       /\ ListRecordings(store.outputDirectory, dirExists, bad, badLater)
  \/ \E stem \in KnownStems : IpcFilesDelete(stem)

SpecL == InitL /\ [][NextL]_vars

\* Summarising any text file: the recording of the processing side with or
\* without a transcript, summarize requests for the path of each text file
\* there is (each request runs to its answer before the next), generation
\* responses of two different texts, a change of the output directory, and
\* deletes.
SummarizeResponses ==
  PipelineResponses \cup {Response("ok", <<BodyOf(<<<<"{", "a", "}">>, <<"{", "a", "}">>>>)>>)}

NextO ==
  \/ WhenReady
  \/ \E settings \in NotesSettings : SettingsUpdate(settings)
  \/ \E path \in TextPaths, health \in PipelineHealth, resp \in SummarizeResponses :
       IpcProcessSummarizePath(path, health, resp)
  \/ \E stem \in KnownStems : IpcFilesDelete(stem)

SpecO == InitN /\ [][NextO]_vars

\* ------------------------------------------------------------- claims
RunningSox == {p \in 1..Len(procs) : Running(p)}

\* sox subprocesses that run and have been sent no signal
UnsignalledSox == {p \in RunningSox : procs[p].signal = "none"}

\* C1: in every reachable state at most one sox subprocess spawned by the
\* application is running.  Checked in the form most favourable to the code:
\* a subprocess that has been sent SIGTERM or SIGKILL and has not exited yet
\* is not counted.
C1_AtMostOneSox == Cardinality(UnsignalledSox) <= 1

\* C2: a start() issued while a session of the recorder is active fails with
\* AlreadyActive, spawns nothing and leaves the recorder, its subprocesses and
\* its timers as they were.
C2_StartWhileActive ==
  [][(lastOp'.op = "start" /\ ActiveSessions(recorder) # {})
       => (lastOp'.result = "AlreadyActive" /\ UNCHANGED <<recs, procs, timers>>)]_vars

\* C3: a stop() called when no session of the recorder is active fails with
\* NotRecording, sends no signal and changes no state.
C3_StopWhenIdle ==
  [][(lastOp'.op = "stop" /\ ActiveSessions(recorder) = {})
       => (lastOp'.result = "NotRecording"
           /\ UNCHANGED <<now, store, recs, procs, timers, recordings,
                          transcripts, notes, jobs, transcribed>>)]_vars

\* C3: stop() was refused on a recorder whose session has ended
C3_RefusedAfterSession ==
  /\ lastOp.op = "stop"
  /\ lastOp.result = "NotRecording"
  /\ recs[recorder].soxProcess # NoProc
  /\ ~Running(recs[recorder].soxProcess)

\* C4: a stop() on an active session does not settle in the call: it settles
\* in the step in which its subprocess exits, and then isRecording is false
\* and the size check of the stopped session is cancelled.
C4_StopSettlesAtExit ==
  [][/\ (lastOp'.op = "stop" /\ ActiveSessions(recorder) # {})
          => lastOp'.result = "pending"
     /\ (lastOp'.op = "soxExit" /\ lastOp'.stops > 0)
          => /\ Running(lastOp'.pid)
             /\ procs'[lastOp'.pid].state = "exited"
             /\ ~recs'[procs[lastOp'.pid].owner].isRecording
             /\ lastOp'.pid \notin timers']_vars

\* the recording file of subprocess p is missing or has no bytes
NoAudio(p) ==
  \/ ~Exists(recordings, procs[p].file)
  \/ recordings[procs[p].file].size = 0

\* C5: when the subprocess exits leaving a missing or zero-byte file, every
\* pending stop() fails (file not created / file empty) and the coordinator
\* starts no processing.
C5_EmptyRecordingFails ==
  [][(lastOp'.op = "soxExit" /\ lastOp'.stops > 0 /\ NoAudio(lastOp'.pid))
       => /\ lastOp'.result \in {"FileNotCreated", "FileEmpty"}
          /\ lastOp'.started = 0
          /\ jobs' = jobs]_vars

SweepOps == {"runCleanup", "filesCleanup"}

C7_RemovedOnlyByDelete ==
  [][\A k \in DOMAIN transcripts \cup DOMAIN notes :
       (\/ k \in DOMAIN transcripts /\ k \notin DOMAIN transcripts'
        \/ k \in DOMAIN notes /\ k \notin DOMAIN notes')
         => /\ lastOp'.op = "filesDelete"
            /\ k \in lastOp'.deletedFiles.transcript \cup lastOp'.deletedFiles.notes]_vars

\* C7: a sweep has deleted a recording whose transcript and notes are there
C7_SweptRecordingKeepsDerived ==
  /\ lastOp.op \in SweepOps
  /\ \E k \in lastOp.deleted : Exists(transcripts, k) /\ Exists(notes, k)

\* the percentage of the marker at position i of s
MarkerValue(s, i) == ParseInt(SubSeq(s, i + 1, DigitRun(s, i + 1) - 1))

MarkerPositions(s) == {i \in 1..Len(s) : MatchAt(s, i)}

\* the markers of s never go down
Rising(s) ==
  \A i, k \in MarkerPositions(s) : i < k => MarkerValue(s, i) <= MarkerValue(s, k)

\* C8: the values passed to the progress callback never go down, no two
\* consecutive ones are equal, each percentage is passed at most once, and
\* the percentage of a run of identical progress lines is passed once
\* (stated for streams whose percentages never go down).
C8_ProgressCallbacks ==
  \A j \in 1..Len(jobs) :
    LET cb == jobs[j].callbacks
        data == jobs[j].stderrData
    IN /\ \A a, b \in 1..Len(cb) : a < b => cb[a] <= cb[b]
       /\ \A a \in 1..(Len(cb) - 1) : cb[a] # cb[a + 1]
       /\ \A a, b \in 1..Len(cb) : a # b => cb[a] # cb[b]
       /\ Rising(data) =>
            \A i \in MarkerPositions(data) :
              \E a \in 1..Len(cb) : cb[a] = MarkerValue(data, i)

\* C9: the result of transcribe follows from the exit of whisper: code 0 and
\* a non-empty output file resolve with the transcript path, code 0 and a
\* missing or empty file fail (transcript not created / empty), any other
\* code fails with EngineFailure carrying the stderr accumulated so far.
C9_ResultFollowsExit ==
  [][lastOp'.op = "transcribeDone"
       => LET job == jobs[lastOp'.job]
              written == Exists(transcripts, job.out) /\ transcripts[job.out] # "empty"
          IN /\ (lastOp'.code = 0 /\ written)
                  => lastOp'.result = "resolved" /\ lastOp'.path = job.out
             /\ (lastOp'.code = 0 /\ ~written)
                  => lastOp'.result \in {"TranscriptNotCreated", "TranscriptEmpty"}
             /\ lastOp'.code # 0
                  => lastOp'.result = "EngineFailure"
                     /\ lastOp'.detail = job.stderrData]_vars

\* C9: whisper has exited with code 0 leaving an empty file
C9_EmptyAfterExitZero ==
  /\ lastOp.op = "transcribeDone"
  /\ lastOp.code = 0
  /\ lastOp.result = "TranscriptEmpty"

\* a transcribe() call that writes transcript k is running
InFlight(k) == \E j \in 1..Len(jobs) : jobs[j].phase = "whisper" /\ jobs[j].out = k

\* C10: a transcript file that exists (and is not being written by a running
\* transcription) is non-empty and was produced by a transcription that
\* succeeded; files:list reports transcribed only for such recordings.
C10_TranscriptMeansTranscribed ==
  /\ \A k \in DOMAIN transcripts :
       ~InFlight(k) => transcripts[k] # "empty" /\ \E e \in transcribed : e[2] = k
  /\ \A f \in FilesList :
       (f.transcribed /\ ~InFlight(f.key))
         => transcripts[f.key] # "empty" /\ \E e \in transcribed : e[2] = f.key

\* generateNotes has come to the end of its probe of the service and of its
\* look at the transcript, for a transcript that is there and blank
BlankProbe(op) ==
  /\ op.op = "notesProbe"
  /\ Exists(transcripts, op.job.out)
  /\ BlankTranscript(transcripts[op.job.out])

\* C11 as stated: given a transcript that is empty or holds only white space,
\* generateNotes fails with EmptyTranscript, issues no generation request and
\* creates or modifies no notes file.
C11_BlankFailsEmptyTranscript ==
  [][BlankProbe(lastOp')
       => /\ lastOp'.result = "EmptyTranscript"
          /\ ~lastOp'.requested
          /\ notes' = notes]_vars

\* C11 amended: given a transcript that is empty or holds only white space,
\* generateNotes fails, issues no generation request and creates or modifies
\* no notes file; it fails with EmptyTranscript when the health probe of the
\* call succeeded, and with the error of the probe otherwise.
C11_BlankFails ==
  [][BlankProbe(lastOp')
       => /\ lastOp'.result = IF checkOllamaHealth(lastOp'.health) = "ok"
                              THEN "EmptyTranscript"
                              ELSE checkOllamaHealth(lastOp'.health)
          /\ ~lastOp'.requested
          /\ Len(jobs') < Len(jobs)
          /\ notes' = notes]_vars

\* a call for a transcript of white space, with notes of an earlier run in
\* place, has failed with EmptyTranscript
C11_BlankRefused ==
  /\ lastOp.op = "notesProbe"
  /\ lastOp.result = "EmptyTranscript"
  /\ Content(transcripts, lastOp.job.out) = "blank"
  /\ Exists(notes, lastOp.job.out)

\* C12: on every generateNotes call the health probe is performed again, and
\* the generation request is issued only after the probe of that same call
\* has succeeded; an unreachable or timed-out service yields
\* ServiceUnavailable and a reachable service with an empty model list yields
\* NoModelsInstalled, in both cases without any generation request.
C12_ProbeGuardsRequest ==
  lastOp.op = "notesProbe"
    => /\ lastOp.requested => lastOp.health = "ok"
       /\ lastOp.health \in {"refused", "timeout"}
            => lastOp.result = "ServiceUnavailable" /\ ~lastOp.requested
       /\ lastOp.health = "nomodels"
            => lastOp.result = "NoModelsInstalled" /\ ~lastOp.requested

\* the body of a response as the service sent it, and its JSON objects
RECURSIVE BodyText(_)
BodyText(chunks) == IF chunks = <<>> THEN <<>> ELSE Head(chunks) \o BodyText(Tail(chunks))

Objects(resp) == SelectSeq(SplitLines(BodyText(resp.chunks)), WellFormed)

StreamHasError(resp) ==
  resp.status = "ok" /\ \E i \in 1..Len(Objects(resp)) : ErrorOf(Objects(resp)[i])

\* C13: if any object of the generation response stream carries an error
\* field, generateNotes fails with GenerationError (distinct from
\* ServiceUnavailable) and writes no notes file, whether or not response
\* fragments were received before the error.
C13_StreamErrorFails ==
  [][(lastOp'.op = "notesDone" /\ StreamHasError(lastOp'.resp))
       => lastOp'.result = "GenerationError" /\ notes' = notes]_vars

\* the text the response fields of all well-formed objects of a body make
ResponseText(resp) == AddLines(<<>>, Objects(resp))

\* C14: for every response stream of newline-delimited JSON objects and every
\* way of splitting it into network chunks, the text accumulated by
\* generateNotes is the in-order concatenation of the response fields of all
\* well-formed objects; malformed lines are skipped without failing the call
\* and without dropping any well-formed object.
C14_AccumulatesAllObjects ==
  (lastOp.op = "notesDone" /\ lastOp.resp.status = "ok")
    => /\ lastOp.fullResponse = ResponseText(lastOp.resp)
       /\ lastOp.result \in {"resolved", "EmptyGeneration", "WriteFailed"}

\* ways generateNotes fails
NotesFailures ==
  {"ServiceUnavailable", "TimeoutError", "HealthStatus", "NoModelsInstalled",
   "TranscriptNotFound", "EmptyTranscript", "RequestFailed", "terminated",
   "EmptyGeneration", "WriteFailed"}

\* C15: whenever generateNotes ends in failure (service unavailable, no
\* models, transcript missing or blank, non-OK HTTP status, EmptyGeneration
\* because the accumulated text is blank), no notes file has been created and
\* an already existing notes file is unchanged; a notes file exists only
\* after a generateNotes call that completed successfully.
C15_FailureWritesNothing ==
  [][/\ (lastOp'.op \in {"notesProbe", "notesDone"} /\ lastOp'.result \in NotesFailures)
          => notes' = notes
     /\ (\E k \in DOMAIN notes' : ~Exists(notes, k) \/ notes'[k] # notes[k])
          => lastOp'.op = "notesDone" /\ lastOp'.result = "resolved"]_vars

\* generateNotes has failed on an empty generation while notes of an earlier
\* run are in place
C15_FailedOverOldNotes ==
  /\ lastOp.op = "notesDone"
  /\ lastOp.result = "EmptyGeneration"
  /\ Exists(notes, lastOp.job.out)
  /\ notes[lastOp.job.out] = OldNotes

\* the transcript path with its `_transcript.txt` suffix replaced by `_notes.md`
SuffixReplaced(path) ==
  IF Len(path) >= 2 /\ SubSeq(path, Len(path) - 1, Len(path)) = <<"_transcript", ".txt">>
  THEN SubSeq(path, 1, Len(path) - 2) \o <<"_notes", ".md">>
  ELSE path

FileName(path) == Basename(path, "")

\* a transcription has resolved for a recording path that ends in `_recording.wav`
TranscribedRecording(op) ==
  /\ op.op = "transcribeDone"
  /\ op.result = "resolved"
  /\ SubSeq(op.wavPath, Len(op.wavPath) - 1, Len(op.wavPath)) = <<"_recording", ".wav">>

DeletesRecording(op) ==
  op.op = "filesDelete" /\ Exists(recordings, Key(store.outputDirectory, op.stem))

\* the names of the recording and of those of its derived files that exist
FilesOf(k) ==
  <<FileName(RecordingPath(k))>>
    \o (IF Exists(transcripts, k) THEN <<FileName(TranscriptFile(k))>> ELSE <<>>)
    \o (IF Exists(notes, k) THEN <<FileName(NotesFile(k))>> ELSE <<>>)

\* C18: an explicit delete of a recording through the coordinator removes the
\* recording file and, when they exist, its transcript and its notes; the
\* reported deletedFiles list contains exactly the files removed, so deleting
\* a recording with no derived files succeeds and reports only the recording.
C18_DeleteRemovesAll ==
  [][DeletesRecording(lastOp')
       => LET k == Key(store.outputDirectory, lastOp'.stem) IN
          /\ lastOp'.success
          /\ recordings' = Unlink(recordings, {k})
          /\ transcripts' = Unlink(transcripts, {k})
          /\ notes' = Unlink(notes, {k})
          /\ lastOp'.names = FilesOf(k)]_vars

\* a recording with a transcript and notes has been deleted, and the three
\* files are reported
C18_DeletedWithDerived ==
  /\ lastOp.op = "filesDelete"
  /\ Len(lastOp.names) = 3
  /\ recordings = <<>> /\ transcripts = <<>> /\ notes = <<>>

\* the jobs as a set
JobSet(js) == {js[i] : i \in 1..Len(js)}

\* a stage of a pipeline run (transcribe followed by generateNotes) has failed
TranscribeFailed(op) ==
  /\ op.op \in {"transcribeDone", "transcribeError"}
  /\ op.chain
  /\ op.result # "resolved"

SummarizeFailed(op) ==
  /\ op.op \in {"notesProbe", "notesDone"}
  /\ op.job.chain
  /\ op.result \notin {"requested", "resolved"}

\* C19: within one pipeline run for a recording, summarization is started only
\* after transcription of that recording has resolved successfully; if
\* transcription or summarization fails the coordinator starts no further
\* stage and retries nothing, and every artifact that existed before the
\* failing stage (the recording, and the transcript when summarization
\* fails) still exists unchanged.
C19_StagesInOrder ==
  [][/\ \A job \in JobSet(jobs') \ JobSet(jobs) :
          (job.chain /\ job.phase = "probe")
            => /\ lastOp'.op = "transcribeDone"
               /\ lastOp'.result = "resolved"
               /\ lastOp'.wav = job.wav
               /\ Exists(transcripts', job.out)
               /\ transcripts'[job.out] # "empty"
     /\ (TranscribeFailed(lastOp') \/ SummarizeFailed(lastOp'))
          => /\ JobSet(jobs') \subseteq JobSet(jobs)
             /\ Len(jobs') = Len(jobs) - 1
             /\ recordings' = recordings
             /\ notes' = notes
     /\ SummarizeFailed(lastOp') => transcripts' = transcripts]_vars

\* the summarization of a pipeline run has failed on a non-OK status: the
\* run is over, the recording and its transcript are in place
C19_SummarizeFailedKeepsFiles ==
  /\ lastOp.op = "notesDone"
  /\ lastOp.job.chain
  /\ lastOp.result = "RequestFailed"
  /\ jobs = <<>>
  /\ Exists(recordings, lastOp.job.wav)
  /\ Exists(transcripts, lastOp.job.out)

\* the recording a job works for: the stem of its input file
RecordingOf(job) == job.wav[2]

\* C20: at any time at most one transcription/summarization chain is running
\* for a given recording, over any interleaving of tray stop, IPC
\* recording:stop, auto-processing and the manual process:transcribe /
\* process:summarize / process:full requests.
C20_OneChainPerRecording ==
  \A i \in 1..Len(jobs), j \in 1..Len(jobs) :
    (i # j) => RecordingOf(jobs[i]) # RecordingOf(jobs[j])

\* C21: a listing of recordings whose metadata is all readable returns every
\* recording file of the directory once, newest first by modification time,
\* and the empty sequence when the directory is missing or holds no
\* recording file.
C21_ListedNewestModifiedFirst ==
  (lastOp.op \in {"filesList", "listRecordings"} /\ lastOp.bad = {}) =>
    /\ Len(lastOp.result) = Cardinality(lastOp.files)
    /\ {lastOp.result[i].key : i \in DOMAIN lastOp.result} = lastOp.files
    /\ \A i, j \in DOMAIN lastOp.result :
         i < j => lastOp.result[i].modified >= lastOp.result[j].modified

\* C22: a listing during which the metadata of some recording files cannot
\* be read still returns every recording file whose metadata can be read.
C22_ReadableStillListed ==
  lastOp.op \in {"filesList", "listRecordings"} =>
    \A k \in lastOp.files \ lastOp.bad :
      \E i \in DOMAIN lastOp.result : lastOp.result[i].key = k

\* C23: a recording:status request never fails: it answers isRecording =
\* FALSE while no session is recording, and isRecording = TRUE with the
\* elapsed duration while one is.
C23_StatusNeverFails ==
  lastOp.op = "recordingStatus" =>
    /\ lastOp.error = "none"
    /\ \A a \in lastOp.answer :
         /\ a.isRecording = lastOp.active
         /\ lastOp.active => a.duration # {}

\* C24: when the emergency cleanup() of a shutdown has returned, the
\* recorder is not recording, its size-check timer is cancelled, and every
\* capture subprocess that still runs has been sent SIGKILL.
C24_ShutdownKillsEveryCapture ==
  lastOp.op = "cleanup" =>
    /\ ~recs[recorder].isRecording
    /\ recs[recorder].sizeInterval = NoTimer
    /\ \A p \in 1..Len(procs) : Running(p) => procs[p].signal = "KILL"

\* C25: when the capture subprocess exits without stop() having been
\* called, the session is not recording, an error reaches the session's
\* caller, a stop() would fail with NotRecording and a start() would pass
\* its guard.
C25_UnexpectedExitSurfaced ==
  (lastOp.op = "soxExit" /\ lastOp.stops = 0) =>
    LET r == procs[lastOp.pid].owner IN
    /\ ~recs[r].isRecording
    /\ StopRejects(r)
    /\ ~StartRejects(r)
    /\ lastOp.result # "none"

\* C26: in every reachable state the stored retentionDays setting is an
\* integer in 1..30, so every retention sweep, which reads the stored
\* setting, runs with a value in that range.
C26_RetentionInRange == store.retentionDays \in RetentionRange

TranscribePending == \E j \in 1..Len(jobs) : jobs[j].phase = "whisper"
NotesPending == \E j \in 1..Len(jobs) : jobs[j].phase \in {"probe", "stream"}

TranscribeOutcome(op) == op.op \in {"transcribeDone", "transcribeError"}
NotesOutcome(op) == op.op = "notesDone" \/ (op.op = "notesProbe" /\ ~op.requested)

\* a step in which a progress callback of the pending call is invoked
ProgressDelivered ==
  /\ jobs # <<>> /\ jobs' # <<>>
  /\ Len(jobs'[1].callbacks) > Len(jobs[1].callbacks)

C28_LastMarkerReported ==
  \A j \in 1..Len(jobs) :
    LET cb == jobs[j].callbacks
        data == jobs[j].stderrData
        I == MarkerPositions(data)
    IN I # {} =>
         /\ cb # <<>>
         /\ cb[Len(cb)] = MarkerValue(data, CHOOSE i \in I : \A x \in I : x <= i)

\* C29: for every recording of a listing, transcribed tells whether the
\* file that transcribe would write for it exists, and summarized whether
\* the file that generateNotes would write for that transcript exists; a
\* delete of the recording targets those two paths.
C29_NamingAgrees ==
  /\ (lastOp.op = "filesList" /\ lastOp.bad = {}) =>
       \A i \in DOMAIN lastOp.result :
         LET e == lastOp.result[i]
             transcriptPath == TranscriptPath(e.filepath, store.outputDirectory)
         IN /\ e.transcribed <=> ExistsAt(transcriptPath)
            /\ e.summarized <=> ExistsAt(NotesPath(transcriptPath))
  /\ lastOp.op = "filesDelete" =>
       LET k == Key(store.outputDirectory, lastOp.stem)
           transcriptPath == TranscriptPath(RecordingPath(k), store.outputDirectory)
       IN /\ TranscriptFile(k) = transcriptPath
          /\ NotesFile(k) = NotesPath(transcriptPath)

\* the paths a pending pipeline writes: the transcript while whisper runs,
\* and the notes made from it
PipelineWrites(job) ==
  LET transcriptPath == TranscriptPath(RecordingPath(job.wav), job.out[1]) IN
  (IF job.phase = "whisper" THEN {transcriptPath} ELSE {}) \cup {NotesPath(transcriptPath)}

\* C30: two pipelines that are pending at the same time for recordings with
\* different file names have no transcript path and no notes path in common.
C30_ConcurrentPipelinesApart ==
  \A a, b \in 1..Len(jobs) :
    (/\ a # b
     /\ jobs[a].chain /\ jobs[b].chain
     /\ FileName(RecordingPath(jobs[a].wav)) # FileName(RecordingPath(jobs[b].wav)))
      => /\ PipelineWrites(jobs[a]) \cap PipelineWrites(jobs[b]) = {}
         /\ jobs[a].out # jobs[b].out

\* the notes of one pipeline have been written while the pipeline of another
\* recording, requested before it, was waiting for its generation response
C30_PipelinesInterleaved ==
  /\ lastOp.op = "notesDone" /\ lastOp.result = "resolved" /\ lastOp.job.chain
  /\ Len(jobs) = 1 /\ jobs[1].chain /\ jobs[1].phase = "stream"
  /\ jobs[1].wav # lastOp.job.wav
  /\ lastOp.job.out[1] = jobs[1].out[1]

\* C31: a size-check tick invokes the warning callback only when the
\* recorder is recording and its current file is larger than 1 GiB, and no
\* tick changes a recorder, a subprocess or a recording file.
C31_TickWarnsOnly ==
  [][/\ lastOp'.op = "sizeWarning" =>
          /\ recs[lastOp'.r].isRecording
          /\ Exists(recordings, recs[lastOp'.r].currentFile)
          /\ recordings[recs[lastOp'.r].currentFile].size > maxRecordingSize
     /\ (\E t \in timers : SizeTick(t)) =>
          /\ recs' = recs /\ procs' = procs /\ recordings' = recordings
          /\ lastOp'.op \in {"none", "sizeWarning"}]_vars

\* a warning has been given and the capture subprocess of the session runs on
C31_WarnedAndCapturing ==
  /\ lastOp.op = "sizeWarning"
  /\ recs[lastOp.r].isRecording
  /\ Running(recs[lastOp.r].soxProcess)
  /\ procs[recs[lastOp.r].soxProcess].signal = "none"

\* C32: a start() that fails because no capture device is found spawns no
\* subprocess, starts no timer and leaves every field of the recorder,
\* isRecording, the file path and the start time among them, as it was.
C32_DeviceNotFoundLeavesIdle ==
  [][(lastOp'.op = "start" /\ lastOp'.result = "DeviceNotFound") =>
       /\ procs' = procs
       /\ timers' = timers
       /\ recs' = recs]_vars

\* the known names that appear in an enumeration, compared in lower case
Appearing(audioDevices) ==
  {i \in DOMAIN possibleNames :
     Includes(ToLowerCase(audioDevices), ToLowerCase(possibleNames[i]))}

\* C33: when the enumeration succeeds, device resolution returns the first
\* of the known names that appears in it (case-insensitively), and fails
\* with DeviceNotFound when none appears.
C33_FirstAppearingName ==
  (lastOp.op = "findDevice" /\ lastOp.execOk) =>
    LET I == Appearing(lastOp.audioDevices) IN
    IF I = {} THEN lastOp.result.error = "DeviceNotFound"
    ELSE /\ lastOp.result.error = "none"
         /\ lastOp.result.name = possibleNames[CHOOSE i \in I : \A x \in I : i <= x]

\* C34: no two capture subprocesses that run at the same time have the same
\* recording file path, and the subprocess of a session never opens a file
\* that exists already, which is a file an earlier session made.
C34_SessionsWriteApart ==
  /\ [](\A p, q \in 1..Len(procs) :
          (p # q /\ Running(p) /\ Running(q)) => procs[p].file # procs[q].file)
  /\ [][\A p \in 1..Len(procs) :
          (~procs[p].opened /\ procs'[p].opened) => ~Exists(recordings, procs[p].file)]_vars

\* C35: of the stop() calls of one capture session at most one resolves, so
\* the exit of its subprocess starts at most one processing pipeline.
C35_OneStopResolves ==
  lastOp.op = "soxExit" =>
    /\ lastOp.result = "resolved" => lastOp.stops <= 1
    /\ lastOp.started <= 1

\* the live size-check intervals that recorder r started
IntervalsOf(r) == {t \in timers : procs[t].owner = r}

\* C36: a recorder has at most one live size-check interval, and none once a
\* stop() of it has settled or cleanup() has returned.
C36_OneSizeInterval ==
  /\ \A r \in 1..Len(recs) : Cardinality(IntervalsOf(r)) <= 1
  /\ lastOp.op = "cleanup" => IntervalsOf(recorder) = {}
  /\ (lastOp.op = "soxExit" /\ lastOp.stops > 0) => IntervalsOf(procs[lastOp.pid].owner) = {}

\* C37: while a capture subprocess runs that no signal was sent to, the
\* coordinator's current recorder is recording.
C37_RunningSoxReachable ==
  \A p \in 1..Len(procs) :
    (Running(p) /\ procs[p].signal = "none") => (Ready /\ recs[recorder].isRecording)

\* C38: the exit of a subprocess that is no longer its recorder's current
\* subprocess, because a later session was started, changes nothing in the
\* recorder.
C38_LateExitLeavesSession ==
  [][\A p \in 1..Len(procs) :
       (/\ Running(p) /\ procs'[p].state = "exited"
        /\ recs[procs[p].owner].soxProcess # p)
         => recs'[procs[p].owner] = recs[procs[p].owner]]_vars

\* the transcript and notes files there are for the recording `stem`
DerivedFiles(ts, ns, stem) == {k \in DOMAIN ts \cup DOMAIN ns : k[2] = stem}

ProcessingRequests == {"processTranscribe", "processFull", "processSummarize"}

\* C39: when files:delete has removed a recording and returned success, the
\* recording has no transcript and no notes file, and the step that follows
\* creates none unless it is a new processing request.
C39_DeletedStaysDeleted ==
  [][(lastOp.op = "filesDelete" /\ lastOp.success /\ lastOp.deletedFiles.wav # {})
       => /\ DerivedFiles(transcripts, notes, lastOp.stem) = {}
          /\ lastOp'.op \notin ProcessingRequests
               => DerivedFiles(transcripts', notes', lastOp.stem) = {}]_vars

\* C40: a summarize request that generateNotes carried through writes a
\* file other than the one it read, and the file it read has the content it
\* had before the request.
C40_InputUntouched ==
  [][(lastOp'.op = "summarizePath" /\ lastOp'.success)
       => /\ lastOp'.notesPath # lastOp'.transcriptPath
          /\ \A k \in TranscriptsAt(lastOp'.transcriptPath) :
               Content(transcripts', k) = transcripts[k]
          /\ \A k \in NotesAt(lastOp'.transcriptPath) :
               Content(notes', k) = notes[k]]_vars

====
